---- MODULE Spec2Model ----
(***************************************************************************)
(* Quibo frontend: the operation-status registry (workflow-store.ts and    *)
(* use-operation-status.ts) and the drag-and-drop outline editor           *)
(* (outline-editor.tsx), modelled as state machines.                       *)
(*                                                                         *)
(* Spec         the operation-status registry with its hook instances      *)
(*              (mounted throughout), AbortControllers and in-flight       *)
(*              requests                                                   *)
(* SpecOutline  the outline editor's drag-and-drop handlers                *)
(* SpecEdit     the outline editor's inline edits, additions and deletions *)
(* SpecNav      the project navigation: stepper layout and tab layout      *)
(* SpecApi      the gateway clients apiClient and apiFormData              *)
(* SpecTranslate  one hook instance failing with any error (setError)      *)
(* SpecQuery    the query client's retry of one query and one mutation     *)
(* SpecQueryFair  SpecQuery with weak fairness of attempts and timers      *)
(* SpecPages    the upload page and the outline settings page              *)
(* SpecProject  the project detail page's redirect                         *)
(* SpecDelete   optimistic project deletion from the confirmation dialog   *)
(* SpecDraft    the draft page's section generation                        *)
(***************************************************************************)
EXTENDS Integers, Sequences, FiniteSets, TLC

VARIABLES
    operations,          \* workflow-store: Record<string, OperationStatus>
    abortControllerRef,  \* per hook instance: abortControllerRef.current (0 = null)
    nextCtl,             \* number of AbortControllers constructed so far
    aborted,             \* the AbortControllers whose signal is aborted
    requests,            \* in-flight requests, each holding the signal it was given
    outline,             \* OutlineEditor prop: outline.sections
    draggedItem,         \* OutlineEditor state
    dragOverItem,        \* OutlineEditor state
    disabled,            \* OutlineEditor prop
    editing,             \* OutlineEditor state: the field being edited inline
    editValue,           \* OutlineEditor state: the edit buffer
    updates,             \* number of onOutlineChange calls so far
    editStart,           \* the outline when the running edit began (history)
    currentStage,        \* project layout: the stage the queries report
    stepperPath,         \* router location under the stepper layout
    tabsPath,            \* router location under the tab layout
    response,            \* gateway client: the Response fetch resolved with
    pc,                  \* gateway client: position inside the async function
    outcome,             \* gateway client: what the returned promise settled with
    query,               \* query client: one query's fetch (status, failureCount, runs)
    mutation,            \* query client: one mutation's execution
    route,               \* the page the user is on: "upload" or "outline"
    uploadPage,          \* UploadPage state
    outlinePage,         \* OutlinePage state and its generateOutlineMutation
    projectPage,         \* ProjectPage (server component): one rendering
    cache,               \* query cache: the data of projectKeys.lists()
    server,              \* the projects the backend holds
    mutations,           \* the delete mutations started so far
    dialog,              \* ui-store deleteConfirmModal and the dialog's observer
    refetching,          \* a refetch of the list is under way
    reconciled,          \* a refetch of the list has completed (history)
    draftSections,       \* DraftPage state: sections (each with its status)
    generatingSectionIndex, \* DraftPage state
    handlers,            \* the calls of handleGenerateSection under way
    last                 \* the handler that ran last (history, for the witnesses)

regVars == <<operations, abortControllerRef, nextCtl, aborted, requests>>
edVars == <<outline, draggedItem, dragOverItem, disabled>>
editVars == <<editing, editValue, updates, editStart>>
navVars == <<currentStage, stepperPath, tabsPath>>
apiVars == <<response, pc, outcome>>
queryVars == <<query, mutation>>
retryVars == <<route, uploadPage, outlinePage>>
projVars == <<projectPage>>
deleteVars == <<cache, server, mutations, dialog, refetching, reconciled>>
draftVars == <<draftSections, generatingSectionIndex, handlers>>
moreVars == <<queryVars, retryVars, projVars, deleteVars, draftVars>>
baseVars == <<regVars, edVars, editVars, navVars, apiVars>>
exceptQuery == <<baseVars, retryVars, projVars, deleteVars, draftVars>>
exceptRetry == <<baseVars, queryVars, projVars, deleteVars, draftVars>>
exceptProj == <<baseVars, queryVars, retryVars, deleteVars, draftVars>>
exceptDelete == <<baseVars, queryVars, retryVars, projVars, draftVars>>
exceptDraft == <<baseVars, queryVars, retryVars, projVars, deleteVars>>
vars == <<operations, abortControllerRef, nextCtl, aborted, requests,
          outline, draggedItem, dragOverItem, disabled,
          editing, editValue, updates, editStart,
          currentStage, stepperPath, tabsPath, response, pc, outcome,
          query, mutation, route, uploadPage, outlinePage, projectPage,
          cache, server, mutations, dialog, refetching, reconciled,
          draftSections, generatingSectionIndex, handlers, last>>

(***************************************************************************)
(* Bounds                                                                  *)
(***************************************************************************)
MaxCtl == 2          \* AbortControllers constructed in one behaviour
MaxRetry == 1        \* cap on retryCount
MaxMutations == 2    \* delete mutations started in one behaviour
MaxSections == 3     \* sections of the outline the draft page shows

(***************************************************************************)
(* Optional values: null / undefined is the empty sequence                 *)
(***************************************************************************)
Null == <<>>
Some(x) == <<x>>

(***************************************************************************)
(* Operation-status registry                                               *)
(***************************************************************************)
Keys == {"k1", "k2"}
Comps == {"c1", "c2", "c3"}

\* options.key of each hook instance: c1 and c2 track the same key
KeyOf(c) == IF c = "c3" THEN "k2" ELSE "k1"

defaultMessage == "Processing..."
Messages == {"m1"}

\* Error | ApiClientError values handed to setError
AbortErr == [name |-> "AbortError", status |-> 0]
NetErr == [name |-> "Error", status |-> 0]
ApiErr(s) == [name |-> "ApiClientError", status |-> s]
Errors == {AbortErr, ApiErr(500)}

DEFAULT_OPERATION_STATUS ==
    [isLoading |-> FALSE, loadingMessage |-> Null, error |-> Null, retryCount |-> 0]

getUserFriendlyMessage(error, onLine) ==
    IF error.name = "AbortError" THEN "Operation cancelled"
    ELSE IF error.name = "ApiClientError" /\ error.status = 401
        THEN "Please sign in to continue"
    ELSE IF error.name = "ApiClientError" /\ error.status = 403
        THEN "You don't have permission for this action"
    ELSE IF error.name = "ApiClientError" /\ error.status = 404
        THEN "The requested resource was not found"
    ELSE IF error.name = "ApiClientError" /\ error.status >= 500
        THEN "Server error. Please try again later."
    ELSE IF ~onLine THEN "No internet connection. Check your network."
    ELSE "Something went wrong. Please try again."

\* a retry flag that is also set for client errors
isRetryable_clientToo(error) ==
    IF error.name = "AbortError" THEN FALSE
    ELSE IF error.name = "ApiClientError" THEN error.status >= 400
    ELSE TRUE

isRetryable(error) ==
    IF error.name = "AbortError" THEN FALSE
    ELSE IF error.name = "ApiClientError" THEN error.status >= 500
    ELSE TRUE

\* the OperationError built by the hook's setError
operationError(error, onLine) ==
    [message |-> getUserFriendlyMessage(error, onLine),
     code |-> IF error.name = "ApiClientError" THEN Some(ToString(error.status)) ELSE Null,
     retryable |-> isRetryable(error)]

\* { ...DEFAULT_OPERATION_STATUS, ...(state.operations[key] || {}) }
spreadStatus(ops, key) ==
    IF key \in DOMAIN ops THEN ops[key] ELSE DEFAULT_OPERATION_STATUS

\* { ...state.operations, [key]: status }
withKey(ops, key, status) ==
    [k \in (DOMAIN ops) \cup {key} |-> IF k = key THEN status ELSE ops[k]]

\* setOperationLoading without the `error: null` line
setOperationLoading_keepsError(ops, key, message) ==
    withKey(ops, key,
        [spreadStatus(ops, key) EXCEPT
            !.isLoading = TRUE, !.loadingMessage = Some(message)])

setOperationLoading(ops, key, message) ==
    withKey(ops, key,
        [spreadStatus(ops, key) EXCEPT
            !.isLoading = TRUE, !.loadingMessage = Some(message), !.error = Null])

\* setOperationError without the spread of the existing record
setOperationError_fromDefault(ops, key, error) ==
    withKey(ops, key,
        [DEFAULT_OPERATION_STATUS EXCEPT
            !.isLoading = FALSE, !.loadingMessage = Null, !.error = Some(error)])

setOperationError(ops, key, error) ==
    withKey(ops, key,
        [spreadStatus(ops, key) EXCEPT
            !.isLoading = FALSE, !.loadingMessage = Null, !.error = Some(error)])

\* clearOperation returning an empty registry
clearOperation_all(ops, key) == <<>>

clearOperation(ops, key) ==
    [k \in (DOMAIN ops) \ {key} |-> ops[k]]

\* incrementRetryCount counting down
incrementRetryCount_down(ops, key) ==
    withKey(ops, key,
        [spreadStatus(ops, key) EXCEPT !.retryCount = spreadStatus(ops, key).retryCount - 1])

incrementRetryCount(ops, key) ==
    withKey(ops, key,
        [spreadStatus(ops, key) EXCEPT !.retryCount = spreadStatus(ops, key).retryCount + 1])

getOperation(ops, key) == IF key \in DOMAIN ops THEN Some(ops[key]) ELSE Null

isAnyLoading(ops) == \E k \in DOMAIN ops : ops[k].isLoading

\* what the record of a key looks like (history only)
kindOf(ops, key) ==
    IF key \notin DOMAIN ops THEN "absent"
    ELSE IF ops[key].isLoading THEN "loading"
    ELSE IF ops[key].error # Null THEN "error"
    ELSE "idle"

NoItem == [type |-> "none", sectionId |-> "", subsectionId |-> ""]

RegInit ==
    /\ operations = <<>>
    /\ abortControllerRef = [c \in Comps |-> 0]
    /\ nextCtl = 0
    /\ aborted = {}
    /\ requests = {}

\* history: the operation that ran, on which hook instance and key, and what a
\* start found under the key
Note(op, c, k, prior, arg) ==
    last' = [op |-> op, comp |-> c, key |-> k,
             prior |-> IF op = "start" THEN prior ELSE "", arg |-> arg]

\* the ways a caller starts an operation: setLoading() then
\* mutate({ signal: getSignal() }), or getSignal() before setLoading()
Orders == {"setLoadingFirst", "getSignalFirst"}

\* abortControllerRef.current after getSignal(), n controllers constructed so far
getSignal(ref, n) == IF ref = 0 THEN n + 1 ELSE ref

\* One operation start by the caller of hook instance c, in one event handler:
\* setLoading(m) constructs a fresh AbortController and calls
\* store.setOperationLoading; the request keeps the signal getSignal() returned
\* at the point the caller asked for it.  Each request remembers, as `start`,
\* the controller its own setLoading constructed.
Start(c, m, order) ==
    LET early == IF order = "getSignalFirst"
                   THEN getSignal(abortControllerRef[c], nextCtl) ELSE 0
        n1 == IF early > nextCtl THEN early ELSE nextCtl
        tok == n1 + 1
        sig == IF order = "setLoadingFirst" THEN getSignal(tok, tok) ELSE early
    IN  /\ tok <= MaxCtl
        /\ nextCtl' = tok
        /\ abortControllerRef' = [abortControllerRef EXCEPT ![c] = tok]
        /\ operations' = setOperationLoading(operations, KeyOf(c),
                            IF m = Null THEN defaultMessage ELSE m[1])
        /\ requests' = requests \cup {[comp |-> c, signal |-> sig, start |-> tok]}
        /\ Note("start", c, KeyOf(c), kindOf(operations, KeyOf(c)), order)
        /\ UNCHANGED aborted
        /\ UNCHANGED <<edVars, editVars, navVars, apiVars, moreVars>>

\* the request's failure callback: setError(error); onLine is navigator.onLine
\* as read by getUserFriendlyMessage
SetError(r, e, onLine) ==
    /\ r \in requests
    /\ (e.name = "AbortError") => (r.signal \in aborted)
    /\ requests' = requests \ {r}
    /\ operations' = setOperationError(operations, KeyOf(r.comp),
                                       operationError(e, onLine))
    /\ Note("setError", r.comp, KeyOf(r.comp), kindOf(operations, KeyOf(r.comp)),
            e.name)
    /\ UNCHANGED <<abortControllerRef, nextCtl, aborted>>
    /\ UNCHANGED <<edVars, editVars, navVars, apiVars, moreVars>>

\* clear(): drops the controller without aborting it and removes the record;
\* called by the request's success callback (r in requests) or by the user (r = Null)
Clear(c, r) ==
    /\ \/ r = Null /\ UNCHANGED requests
       \/ r # Null /\ r[1] \in requests /\ r[1].comp = c /\ requests' = requests \ {r[1]}
    /\ abortControllerRef' = [abortControllerRef EXCEPT ![c] = 0]
    /\ operations' = clearOperation(operations, KeyOf(c))
    /\ Note("clear", c, KeyOf(c), kindOf(operations, KeyOf(c)), "")
    /\ UNCHANGED <<nextCtl, aborted>>
    /\ UNCHANGED <<edVars, editVars, navVars, apiVars, moreVars>>

\* cancel(): aborts the current controller, if any, and removes the record
Cancel(c) ==
    /\ IF abortControllerRef[c] # 0
         THEN /\ aborted' = aborted \cup {abortControllerRef[c]}
              /\ abortControllerRef' = [abortControllerRef EXCEPT ![c] = 0]
         ELSE UNCHANGED <<aborted, abortControllerRef>>
    /\ operations' = clearOperation(operations, KeyOf(c))
    /\ Note("cancel", c, KeyOf(c), kindOf(operations, KeyOf(c)), "")
    /\ UNCHANGED <<nextCtl, requests>>
    /\ UNCHANGED <<edVars, editVars, navVars, apiVars, moreVars>>

\* the store's incrementRetryCount(key)
IncrementRetryCount(k) ==
    /\ spreadStatus(operations, k).retryCount < MaxRetry
    /\ operations' = incrementRetryCount(operations, k)
    /\ Note("incrementRetryCount", "", k, kindOf(operations, k), "")
    /\ UNCHANGED <<abortControllerRef, nextCtl, aborted, requests>>
    /\ UNCHANGED <<edVars, editVars, navVars, apiVars, moreVars>>

(***************************************************************************)
(* Outline editor (outline-editor.tsx)                                     *)
(*                                                                         *)
(* Each action is one invocation of a handler with the arguments of an     *)
(* element the editor renders.  An event on a subsection row also reaches  *)
(* the handler of the enclosing section card; that is a sequence of two    *)
(* of these actions.                                                       *)
(***************************************************************************)
sub(id) == [id |-> id, title |-> "T-" \o id, description |-> "D-" \o id]
sec(id, subs) ==
    [id |-> id, title |-> "T-" \o id, description |-> "D-" \o id, subsections |-> subs]

\* The outlines the editor is opened on: section identifiers are unique,
\* subsection identifiers are unique within their section only ("x" occurs in
\* two sections), and a section may come without a subsections field.
Outlines ==
    { << sec("a", Some(<<sub("x"), sub("y"), sub("z")>>)),
         sec("b", Some(<<sub("x"), sub("w")>>)),
         sec("c", Null) >>,
      << sec("a", Some(<<>>)), sec("b", Null), sec("c", Null), sec("d", Null) >>,
      << sec("a", Some(<<sub("x"), sub("y")>>)) >> }

item(type, sectionId, subsectionId) ==
    [type |-> type, sectionId |-> sectionId, subsectionId |-> subsectionId]

\* the (type, sectionId, subsectionId) of the rows the editor renders
Rendered(sections) ==
    {item("section", sections[i].id, "") : i \in DOMAIN sections}
    \cup UNION { IF sections[i].subsections = Null THEN {}
                 ELSE {item("subsection", sections[i].id, sections[i].subsections[1][j].id) :
                          j \in DOMAIN sections[i].subsections[1]} : i \in DOMAIN sections }

\* Array.prototype.findIndex on the id field, 1-based; 0 stands for -1
findIndex(seq, id) ==
    IF \E i \in DOMAIN seq : seq[i].id = id
      THEN CHOOSE i \in DOMAIN seq : seq[i].id = id /\ \A j \in 1..(i - 1) : seq[j].id # id
      ELSE 0

removeAt(seq, i) == SubSeq(seq, 1, i - 1) \o SubSeq(seq, i + 1, Len(seq))
insertAt(seq, i, x) == SubSeq(seq, 1, i - 1) \o <<x>> \o SubSeq(seq, i, Len(seq))

\* a move that lowers the target index by one when the source precedes it
spliceMove_shifted(seq, fromIndex, toIndex) ==
    insertAt(removeAt(seq, fromIndex),
             IF fromIndex < toIndex THEN toIndex - 1 ELSE toIndex, seq[fromIndex])

\* const [removed] = copy.splice(fromIndex, 1); copy.splice(toIndex, 0, removed)
spliceMove(seq, fromIndex, toIndex) ==
    insertAt(removeAt(seq, fromIndex), toIndex, seq[fromIndex])

\* handleDrop's section branch: the new sections, or the old ones when it does
\* not call updateOutline
dropSection(sections, dragged, over) ==
    LET fromIndex == findIndex(sections, dragged.sectionId)
        toIndex == findIndex(sections, over.sectionId)
    IN  IF fromIndex # 0 /\ toIndex # 0 /\ fromIndex # toIndex
          THEN spliceMove(sections, fromIndex, toIndex)
          ELSE sections

\* handleDrop's subsection branch
dropSubsection(sections, dragged, over) ==
    LET si == findIndex(sections, dragged.sectionId)
    IN  IF si = 0 \/ sections[si].subsections = Null THEN sections
        ELSE LET subs == sections[si].subsections[1]
                 fromIndex == findIndex(subs, dragged.subsectionId)
                 toIndex == findIndex(subs, over.subsectionId)
             IN  IF fromIndex # 0 /\ toIndex # 0 /\ fromIndex # toIndex
                   THEN [i \in DOMAIN sections |->
                           IF sections[i].id = sections[si].id
                             THEN [sections[i] EXCEPT
                                     !.subsections = Some(spliceMove(subs, fromIndex, toIndex))]
                             ELSE sections[i]]
                   ELSE sections

NoteEd(op, arg) ==
    last' = [op |-> op, comp |-> "", key |-> "", prior |-> "", arg |-> arg]

HandleDragStart(it) ==
    /\ it \in Rendered(outline)
    /\ draggedItem' = IF disabled THEN draggedItem ELSE it
    /\ NoteEd("dragstart", it.type)
    /\ UNCHANGED <<outline, dragOverItem, disabled>>
    /\ UNCHANGED <<regVars, editVars, navVars, apiVars, moreVars>>

HandleDragOver(it) ==
    /\ it \in Rendered(outline)
    /\ dragOverItem' =
         IF disabled \/ draggedItem = NoItem THEN dragOverItem
         ELSE IF draggedItem.type # it.type THEN dragOverItem
         ELSE IF it.type = "subsection" /\ draggedItem.sectionId # it.sectionId
           THEN dragOverItem
         ELSE it
    /\ NoteEd("dragover", it.type)
    /\ UNCHANGED <<outline, draggedItem, disabled>>
    /\ UNCHANGED <<regVars, editVars, navVars, apiVars, moreVars>>

HandleDragLeave ==
    /\ dragOverItem' = NoItem
    /\ NoteEd("dragleave", "")
    /\ UNCHANGED <<outline, draggedItem, disabled>>
    /\ UNCHANGED <<regVars, editVars, navVars, apiVars, moreVars>>

\* handleDrop; updateOutline hands the new sections to the holder, which
\* stores them (setOutline)
HandleDrop ==
    /\ outline' =
         IF disabled \/ draggedItem = NoItem \/ dragOverItem = NoItem THEN outline
         ELSE IF draggedItem.type = "section"
           THEN dropSection(outline, draggedItem, dragOverItem)
         ELSE dropSubsection(outline, draggedItem, dragOverItem)
    /\ draggedItem' = NoItem
    /\ dragOverItem' = NoItem
    /\ NoteEd("drop", IF outline' # outline THEN draggedItem.type ELSE "")
    /\ UNCHANGED disabled
    /\ UNCHANGED <<regVars, editVars, navVars, apiVars, moreVars>>

HandleDragEnd ==
    /\ draggedItem' = NoItem
    /\ dragOverItem' = NoItem
    /\ NoteEd("dragend", "")
    /\ UNCHANGED <<outline, disabled>>
    /\ UNCHANGED <<regVars, editVars, navVars, apiVars, moreVars>>

\* the parent re-renders the editor with another value of the disabled prop
SetDisabled ==
    /\ disabled' = ~disabled
    /\ NoteEd("disabled", "")
    /\ UNCHANGED <<outline, draggedItem, dragOverItem>>
    /\ UNCHANGED <<regVars, editVars, navVars, apiVars, moreVars>>

(***************************************************************************)
(* The outline editor's inline edits, additions and deletions              *)
(*                                                                         *)
(* A string the user types is a sequence of pieces: the piece " " is a     *)
(* run of whitespace, any other piece is text without whitespace at its    *)
(* ends.  A click on a button of the editor while an input is focused      *)
(* first blurs the input (onBlur = saveEditing) and then runs the button's *)
(* handler.                                                                *)
(***************************************************************************)
MaxUpdates == 3      \* onOutlineChange calls in one behaviour
MaxSteps == 4        \* longest step list handed to a ProgressStepper

Fields == {"title", "description"}
Typed == { <<" ">>, <<" ", "n", " ">> }
\* generateId reads the clock and the random generator; nothing makes two
\* reads differ.  Two clock values let two calls differ or agree; further
\* random digits would only add more ids.
Times == {1, 2}          \* the values Date.now() returns
Randoms == {"i"}         \* the values Math.random().toString(36).slice(2, 9) returns
AbsentId == "zz"

NoEdit == [type |-> "none", sectionId |-> "", subsectionId |-> "", field |-> ""]

RECURSIVE trimStart(_)
trimStart(buf) == IF buf # <<>> /\ Head(buf) = " " THEN trimStart(Tail(buf)) ELSE buf

RECURSIVE trimEnd(_)
trimEnd(buf) ==
    IF buf # <<>> /\ buf[Len(buf)] = " " THEN trimEnd(SubSeq(buf, 1, Len(buf) - 1)) ELSE buf

RECURSIVE join(_)
join(buf) == IF buf = <<>> THEN "" ELSE Head(buf) \o join(Tail(buf))

\* String.prototype.trim
trim(buf) == join(trimEnd(trimStart(buf)))

\* the pieces of a stored string
pieces(str) == IF str = "" THEN <<>> ELSE <<str>>

\* { ...entity, [field]: value }
setField(entity, field, value) ==
    IF field = "title" THEN [entity EXCEPT !.title = value]
    ELSE [entity EXCEPT !.description = value]

\* `${Date.now()}-${Math.random().toString(36).slice(2, 9)}`
generateId(time, random) == ToString(time) \o "-" \o random

\* saveEditing: the sections the holder has afterwards
saveEditing(sections, ed, buf) ==
    IF ed = NoEdit \/ trim(buf) = "" THEN sections
    ELSE IF ed.type = "section"
      THEN [i \in DOMAIN sections |->
              IF sections[i].id = ed.sectionId
                THEN setField(sections[i], ed.field, trim(buf))
                ELSE sections[i]]
    ELSE IF ed.type = "subsection" /\ ed.subsectionId # ""
      THEN [i \in DOMAIN sections |->
              IF sections[i].id = ed.sectionId
                THEN [sections[i] EXCEPT !.subsections =
                        IF @ = Null THEN Null
                        ELSE Some([j \in DOMAIN @[1] |->
                                     IF @[1][j].id = ed.subsectionId
                                       THEN setField(@[1][j], ed.field, trim(buf))
                                       ELSE @[1][j]])]
                ELSE sections[i]]
    ELSE sections

\* whether saveEditing calls updateOutline
saveUpdates(ed, buf) ==
    ed # NoEdit /\ trim(buf) # ""
    /\ (ed.type = "section" \/ (ed.type = "subsection" /\ ed.subsectionId # ""))

newSection(id) ==
    [id |-> id, title |-> "New Section", description |-> "Section description",
     subsections |-> Some(<<>>)]

newSubsection(id) ==
    [id |-> id, title |-> "New Subsection", description |-> "Subsection description"]

addSection(sections, id) == Append(sections, newSection(id))

deleteSection(sections, sectionId) ==
    SelectSeq(sections, LAMBDA s : s.id # sectionId)

addSubsection(sections, sectionId, id) ==
    [i \in DOMAIN sections |->
       IF sections[i].id = sectionId
         THEN [sections[i] EXCEPT !.subsections =
                 Some((IF @ = Null THEN <<>> ELSE @[1]) \o <<newSubsection(id)>>)]
         ELSE sections[i]]

deleteSubsection(sections, sectionId, subsectionId) ==
    [i \in DOMAIN sections |->
       IF sections[i].id = sectionId
         THEN [sections[i] EXCEPT !.subsections =
                 IF @ = Null THEN Null
                 ELSE Some(SelectSeq(@[1], LAMBDA x : x.id # subsectionId))]
         ELSE sections[i]]

\* the value shown in the field a click on it starts editing
currentValue(sections, it, field) ==
    LET s == sections[findIndex(sections, it.sectionId)]
        e == IF it.type = "section" THEN s
             ELSE s.subsections[1][findIndex(s.subsections[1], it.subsectionId)]
    IN  IF field = "title" THEN e.title ELSE e.description

NoteEdit(op, sectionId, arg) ==
    last' = [op |-> op, comp |-> "", key |-> sectionId, prior |-> "", arg |-> arg]

\* what the blur of the focused input does before a click's own handler runs
blurred == saveEditing(outline, editing, editValue)
blurUpdates == IF saveUpdates(editing, editValue) THEN 1 ELSE 0

\* a click on a title or a description: startEditing
StartEditing(it, field) ==
    /\ it \in Rendered(outline)
    /\ updates + blurUpdates <= MaxUpdates
    /\ outline' = blurred
    /\ updates' = updates + blurUpdates
    /\ IF disabled
         THEN editing' = NoEdit /\ editValue' = <<>> /\ editStart' = Null
         ELSE /\ editing' = [type |-> it.type, sectionId |-> it.sectionId,
                             subsectionId |-> it.subsectionId, field |-> field]
              /\ editValue' = pieces(currentValue(blurred, it, field))
              /\ editStart' = Some(blurred)
    /\ NoteEdit("startEditing", "", "")
    /\ UNCHANGED <<draggedItem, dragOverItem, disabled>>
    /\ UNCHANGED <<regVars, navVars, apiVars, moreVars>>

\* the input's onChange
SetEditValue(buf) ==
    /\ editing # NoEdit
    /\ editValue' = buf
    /\ NoteEdit("setEditValue", "", "")
    /\ UNCHANGED <<edVars, editing, updates, editStart>>
    /\ UNCHANGED <<regVars, navVars, apiVars, moreVars>>

\* saveEditing, run by the Enter key, by the input losing focus, or by a click
\* on the Save button (which blurs the input first)
SaveEditing ==
    /\ editing # NoEdit
    /\ updates + blurUpdates <= MaxUpdates
    /\ outline' = blurred
    /\ editing' = NoEdit
    /\ editValue' = <<>>
    /\ editStart' = Null
    /\ updates' = updates + blurUpdates
    /\ NoteEdit("saveEditing", "", "")
    /\ UNCHANGED <<draggedItem, dragOverItem, disabled>>
    /\ UNCHANGED <<regVars, navVars, apiVars, moreVars>>

\* the Escape key: cancelEditing
KeyEscape ==
    /\ editing # NoEdit
    /\ editing' = NoEdit
    /\ editValue' = <<>>
    /\ editStart' = Null
    /\ NoteEdit("escape", "", "")
    /\ UNCHANGED <<edVars, updates>>
    /\ UNCHANGED <<regVars, navVars, apiVars, moreVars>>

\* a click on the Cancel button: the focused input loses focus, so its onBlur
\* runs saveEditing, and the button's onClick = cancelEditing follows
ClickCancel ==
    /\ editing # NoEdit
    /\ updates + blurUpdates <= MaxUpdates
    /\ outline' = blurred
    /\ editing' = NoEdit
    /\ editValue' = <<>>
    /\ editStart' = Null
    /\ updates' = updates + blurUpdates
    /\ NoteEdit("cancelButton", "", "")
    /\ UNCHANGED <<draggedItem, dragOverItem, disabled>>
    /\ UNCHANGED <<regVars, navVars, apiVars, moreVars>>

\* the ids a handler may be called with: those in the document and one that
\* is in no document
sectionIds(sections) == {sections[i].id : i \in DOMAIN sections}
subsectionIds(sections) ==
    UNION { IF sections[i].subsections = Null THEN {}
            ELSE {sections[i].subsections[1][j].id : j \in DOMAIN sections[i].subsections[1]} :
            i \in DOMAIN sections }

\* what a click on one of the editor's buttons does: the blur of a focused
\* input, then the button's handler on the sections it is given
Click(op, sectionId, arg, newSections) ==
    /\ updates + blurUpdates + (IF disabled THEN 0 ELSE 1) <= MaxUpdates
    /\ outline' = IF disabled THEN blurred ELSE newSections
    /\ updates' = updates + blurUpdates + (IF disabled THEN 0 ELSE 1)
    /\ editing' = NoEdit
    /\ editValue' = <<>>
    /\ editStart' = Null
    /\ NoteEdit(op, sectionId, arg)
    /\ UNCHANGED <<draggedItem, dragOverItem, disabled>>
    /\ UNCHANGED <<regVars, navVars, apiVars, moreVars>>

ClickAddSection(time, random) ==
    Click("addSection", "", generateId(time, random),
          addSection(blurred, generateId(time, random)))

ClickDeleteSection(sectionId) ==
    Click("deleteSection", sectionId, "", deleteSection(blurred, sectionId))

ClickAddSubsection(sectionId, time, random) ==
    Click("addSubsection", sectionId, generateId(time, random),
          addSubsection(blurred, sectionId, generateId(time, random)))

ClickDeleteSubsection(sectionId, subsectionId) ==
    Click("deleteSubsection", sectionId, subsectionId,
          deleteSubsection(blurred, sectionId, subsectionId))

(***************************************************************************)
(* Project navigation: the stepper layout (ProjectLayout wiring            *)
(* ProgressStepper) and the tab layout (WorkflowTabs)                      *)
(***************************************************************************)
WORKFLOW_STEPS == <<"upload", "outline", "drafting", "refining", "social">>
STAGE_ORDER == <<"upload", "outline", "drafting", "refining", "social", "complete">>
WORKFLOW_TABS ==
    << [id |-> "upload", path |-> "upload"], [id |-> "outline", path |-> "outline"],
       [id |-> "drafting", path |-> "draft"], [id |-> "refining", path |-> "refine"],
       [id |-> "social", path |-> "social"] >>

\* the stage values the queries can deliver: the six stages and one the
\* frontend does not know
UnmappedStage == "archived"
Stages == {STAGE_ORDER[i] : i \in DOMAIN STAGE_ORDER} \cup {UnmappedStage}

\* Array.prototype.indexOf, 0-based, -1 when absent
indexOf(seq, x) ==
    IF \E i \in DOMAIN seq : seq[i] = x
      THEN (CHOOSE i \in DOMAIN seq : seq[i] = x /\ \A j \in 1..(i - 1) : seq[j] # x) - 1
      ELSE -1

\* Math.min
min(a, b) == IF a < b THEN a ELSE b

getStepPath(stepId) ==
    IF stepId = "drafting" THEN "draft"
    ELSE IF stepId = "refining" THEN "refine"
    ELSE stepId

\* `/project/${id}/${path}` for the one project shown
ProjectId == "p1"
projectUrl(path) == "/project/" \o ProjectId \o "/" \o path

currentStepIndex(stage) == indexOf(STAGE_ORDER, stage)
displayStepIndex(stage) == min(currentStepIndex(stage), Len(WORKFLOW_STEPS) - 1)

\* a fill percentage over the number of steps
progressPercent_overLength(stepCount, currentStep) ==
    IF stepCount > 1 THEN [num |-> currentStep * 100, den |-> stepCount]
    ELSE [num |-> 0, den |-> 1]

\* the fill percentage (currentStep / (steps.length - 1)) * 100 as the exact
\* fraction num / den
progressPercent(stepCount, currentStep) ==
    IF stepCount > 1 THEN [num |-> currentStep * 100, den |-> stepCount - 1]
    ELSE [num |-> 0, den |-> 1]

\* a classification that counts the current step as completed
getStepState_inclusive(stepIndex, currentStep) ==
    IF stepIndex <= currentStep THEN "completed"
    ELSE IF stepIndex = currentStep THEN "current"
    ELSE "future"

getStepState(stepIndex, currentStep) ==
    IF stepIndex < currentStep THEN "completed"
    ELSE IF stepIndex = currentStep THEN "current"
    ELSE "future"

\* a stepper that also passes on a click on the current step
handleStepClick_inclusive(stepIndex, currentStep) == stepIndex <= currentStep

\* ProgressStepper.handleStepClick: whether onStepClick is called
handleStepClick(stepIndex, currentStep) == stepIndex < currentStep

\* ProjectLayout.handleStepClick: the url pushed, "" when none is
layoutHandleStepClick(stepIndex, stage) ==
    IF stepIndex < currentStepIndex(stage)
      THEN projectUrl(getStepPath(WORKFLOW_STEPS[stepIndex + 1]))
      ELSE ""

getStageIndex(stage) == indexOf(STAGE_ORDER, stage)
isStageAccessible(tabStage, stage) == getStageIndex(tabStage) <= getStageIndex(stage)

\* WorkflowTabs.handleTabClick: the url pushed, "" when none is
handleTabClick(tab, stage) ==
    IF ~isStageAccessible(tab.id, stage) THEN "" ELSE projectUrl(tab.path)

NoteNav(op, stepId, pushed) ==
    last' = [op |-> op, comp |-> "", key |-> stepId, prior |-> "", arg |-> pushed]

\* a click on marker stepIndex of the stepper
StepClick(stepIndex) ==
    LET pushed == IF handleStepClick(stepIndex, displayStepIndex(currentStage))
                    THEN layoutHandleStepClick(stepIndex, currentStage)
                    ELSE ""
    IN  /\ stepperPath' = IF pushed = "" THEN stepperPath ELSE pushed
        /\ NoteNav("stepClick", WORKFLOW_STEPS[stepIndex + 1], pushed)
        /\ UNCHANGED <<currentStage, tabsPath>>
        /\ UNCHANGED <<regVars, edVars, editVars, apiVars, moreVars>>

\* a click on tab number tabIndex of the tab layout
TabClick(tabIndex) ==
    LET pushed == handleTabClick(WORKFLOW_TABS[tabIndex + 1], currentStage)
    IN  /\ tabsPath' = IF pushed = "" THEN tabsPath ELSE pushed
        /\ NoteNav("tabClick", WORKFLOW_TABS[tabIndex + 1].id, pushed)
        /\ UNCHANGED <<currentStage, stepperPath>>
        /\ UNCHANGED <<regVars, edVars, editVars, apiVars, moreVars>>

\* the status query delivers another stage
SetStage(stage) ==
    /\ stage # currentStage
    /\ currentStage' = stage
    /\ NoteNav("setStage", "", "")
    /\ UNCHANGED <<stepperPath, tabsPath>>
    /\ UNCHANGED <<regVars, edVars, editVars, apiVars, moreVars>>

(***************************************************************************)
(* The gateway clients apiClient (client.ts) and apiFormData (workflow.ts) *)
(* from the moment fetch resolves.  A Response body is read once: json()   *)
(* and text() consume the stream, and a second read of a consumed stream   *)
(* rejects with a TypeError (Fetch standard, "consume body").              *)
(***************************************************************************)
Clients == {"apiClient", "apiFormData"}
Statuses == {200, 204, 400, 404, 500, 502}

\* response bodies: the raw text, its JSON value when it parses, and whether
\* the response has a body stream at all (null body: HEAD, 204, 304)
JsonBody == [stream |-> TRUE, raw |-> "{\"error_code\":1}",
             json |-> Some([keys |-> "snake_case", value |-> 1])]
TextBody == [stream |-> TRUE, raw |-> "<html>Bad Gateway</html>", json |-> Null]
EmptyBody == [stream |-> TRUE, raw |-> "", json |-> Null]
NoBody == [stream |-> FALSE, raw |-> "", json |-> Null]

Responses ==
    { [status |-> st, body |-> b, bodyUsed |-> FALSE] :
        st \in Statuses \ {204}, b \in {JsonBody, TextBody, EmptyBody, NoBody} }
    \cup { [status |-> 204, body |-> NoBody, bodyUsed |-> FALSE] }

\* response.ok
ok(resp) == resp.status >= 200 /\ resp.status <= 299

\* transformKeys: snake_case keys become camelCase
transformKeys(data) == [data EXCEPT !.keys = "camelCase"]

\* new ApiClientError(response.status, message, details)
ApiClientError(status, details) ==
    [kind |-> "ApiClientError", status |-> status, details |-> Some(details)]
Thrown(kind) == [kind |-> kind, status |-> 0, details |-> Null]
Returned(data) == [kind |-> "returned", status |-> 0, details |-> data]

\* a body read is refused when the stream has been read before
unusable(resp) == resp.body.stream /\ resp.bodyUsed
consumed(resp) == [resp EXCEPT !.bodyUsed = resp.body.stream]

At(fn, at) == [fn |-> fn, at |-> at]
NoteApi(op, fn) == last' = [op |-> op, comp |-> fn, key |-> "", prior |-> "", arg |-> ""]

\* await fetch(...) resolves with resp
Fetched(fn, resp) ==
    /\ pc.at = "idle"
    /\ response' = Some(resp)
    /\ pc' = At(fn, "fetched")
    /\ outcome' = Null
    /\ NoteApi("fetched", fn)
    /\ UNCHANGED <<regVars, edVars, editVars, navVars, moreVars>>

\* if (!response.ok) ... ; if (response.status === 204) return undefined
Branch ==
    /\ pc.at = "fetched"
    /\ IF ~ok(response[1]) THEN pc' = At(pc.fn, "errorJson") /\ UNCHANGED outcome
       ELSE IF response[1].status = 204
         THEN pc' = At(pc.fn, "done") /\ outcome' = Some(Returned(Null))
       ELSE pc' = At(pc.fn, "dataJson") /\ UNCHANGED outcome
    /\ NoteApi("branch", pc.fn)
    /\ UNCHANGED response
    /\ UNCHANGED <<regVars, edVars, editVars, navVars, moreVars>>

\* try { details = await response.json() }: throw the ApiClientError, or go
\* to the catch block
ErrorJson ==
    /\ pc.at = "errorJson"
    /\ response' = Some(consumed(response[1]))
    /\ IF ~unusable(response[1]) /\ response[1].body.json # Null
         THEN /\ pc' = At(pc.fn, "done")
              /\ outcome' = Some(ApiClientError(response[1].status, response[1].body.json[1]))
         ELSE pc' = At(pc.fn, "errorText") /\ UNCHANGED outcome
    /\ NoteApi("errorJson", pc.fn)
    /\ UNCHANGED <<regVars, edVars, editVars, navVars, moreVars>>

\* catch { details = await response.text() }: throw the ApiClientError, or
\* fail with what text() rejects with
ErrorText ==
    /\ pc.at = "errorText"
    /\ response' = Some(consumed(response[1]))
    /\ pc' = At(pc.fn, "done")
    /\ outcome' = IF unusable(response[1]) THEN Some(Thrown("TypeError"))
                  ELSE Some(ApiClientError(response[1].status, response[1].body.raw))
    /\ NoteApi("errorText", pc.fn)
    /\ UNCHANGED <<regVars, edVars, editVars, navVars, moreVars>>

\* const data = await response.json(); return transformKeys(data)
DataJson ==
    /\ pc.at = "dataJson"
    /\ response' = Some(consumed(response[1]))
    /\ pc' = At(pc.fn, "done")
    /\ outcome' = IF response[1].body.json # Null
                    THEN Some(Returned(Some(transformKeys(response[1].body.json[1]))))
                    ELSE Some(Thrown("SyntaxError"))
    /\ NoteApi("dataJson", pc.fn)
    /\ UNCHANGED <<regVars, edVars, editVars, navVars, moreVars>>

\* the caller has the settled promise; the client can be called again
Settled ==
    /\ pc.at = "done"
    /\ pc' = At("", "idle")
    /\ response' = Null
    /\ NoteApi("settled", pc.fn)
    /\ UNCHANGED outcome
    /\ UNCHANGED <<regVars, edVars, editVars, navVars, moreVars>>

(***************************************************************************)
(* The query client (createQueryClient): one query and one mutation under  *)
(* the default options.  The retryer calls retry(failureCount, error) with *)
(* the number of failures before this one, and on true increments          *)
(* failureCount, waits retryDelay and runs the function again.             *)
(***************************************************************************)
RetryLimit == 3
HTTP_STATUS_TO_NOT_RETRY == {400, 401, 403, 404, 422}

RECURSIVE pow2(_)
pow2(n) == IF n = 0 THEN 1 ELSE 2 * pow2(n - 1)

\* a retry predicate that allows a fourth retry
retry_fourRetries(failureCount, error, onLine) ==
    IF failureCount >= RetryLimit + 1 THEN FALSE
    ELSE IF error.name = "ApiClientError" /\ error.status \in HTTP_STATUS_TO_NOT_RETRY THEN FALSE
    ELSE IF ~onLine THEN FALSE
    ELSE TRUE

\* defaultOptions.queries.retry
retry(failureCount, error, onLine) ==
    IF failureCount >= RetryLimit THEN FALSE
    ELSE IF error.name = "ApiClientError" /\ error.status \in HTTP_STATUS_TO_NOT_RETRY THEN FALSE
    ELSE IF ~onLine THEN FALSE
    ELSE TRUE

\* defaultOptions.queries.retryDelay
retryDelay(attemptIndex) == min(1000 * pow2(attemptIndex), 30000)

\* defaultOptions.mutations.retry
mutationRetry == FALSE

QueryIdle ==
    /\ query = [status |-> "idle", failureCount |-> 0, runs |-> 0, delay |-> 0, error |-> Null]
    /\ mutation = [status |-> "idle", runs |-> 0]

NoteQ(op, fc, e) ==
    last' = [op |-> op, comp |-> "query", key |-> e.name, prior |-> ToString(fc),
             arg |-> ToString(e.status)]

NoError == [name |-> "", status |-> 0]

\* a fetch starts: the query function runs for the first time
Fetch ==
    /\ query.status \in {"idle", "success", "error"}
    /\ query' = [status |-> "fetching", failureCount |-> 0, runs |-> 1, delay |-> 0,
                 error |-> Null]
    /\ NoteQ("fetch", 0, NoError)
    /\ UNCHANGED mutation
    /\ UNCHANGED exceptQuery

\* the query function resolves
QuerySucceeds ==
    /\ query.status = "fetching"
    /\ query' = [query EXCEPT !.status = "success", !.error = Null]
    /\ NoteQ("querySucceeds", query.failureCount, NoError)
    /\ UNCHANGED mutation
    /\ UNCHANGED exceptQuery

\* the query function rejects with e while navigator.onLine is onLine
QueryFails(e, onLine) ==
    /\ query.status = "fetching"
    /\ query' = IF retry(query.failureCount, e, onLine)
                THEN [query EXCEPT !.status = "waiting",
                                   !.failureCount = query.failureCount + 1,
                                   !.delay = retryDelay(query.failureCount),
                                   !.error = Some(e)]
                ELSE [query EXCEPT !.status = "error", !.error = Some(e)]
    /\ NoteQ("queryFails", query.failureCount, e)
    /\ UNCHANGED mutation
    /\ UNCHANGED exceptQuery

\* the backoff delay has passed: the query function runs again
RetryTimer ==
    /\ query.status = "waiting"
    /\ query' = [query EXCEPT !.status = "fetching", !.runs = query.runs + 1]
    /\ NoteQ("retryTimer", query.failureCount, NoError)
    /\ UNCHANGED mutation
    /\ UNCHANGED exceptQuery

\* mutate(): the mutation function runs
Mutate ==
    /\ mutation.status # "running"
    /\ mutation' = [status |-> "running", runs |-> 1]
    /\ NoteQ("mutate", 0, NoError)
    /\ UNCHANGED query
    /\ UNCHANGED exceptQuery

MutationSucceeds ==
    /\ mutation.status = "running"
    /\ mutation' = [mutation EXCEPT !.status = "success"]
    /\ NoteQ("mutationSucceeds", 0, NoError)
    /\ UNCHANGED query
    /\ UNCHANGED exceptQuery

MutationFails(e) ==
    /\ mutation.status = "running"
    /\ mutation' = IF mutationRetry
                   THEN [mutation EXCEPT !.runs = mutation.runs + 1]
                   ELSE [mutation EXCEPT !.status = "error"]
    /\ NoteQ("mutationFails", 0, e)
    /\ UNCHANGED query
    /\ UNCHANGED exceptQuery

(***************************************************************************)
(* The upload page (UploadPage) and the outline settings page              *)
(* (OutlinePage) with their inline error panels.  The user is on one page  *)
(* at a time; a successful processing of the files pushes the outline      *)
(* route.  The fields request and failed record the parameters of the      *)
(* request sent last and of the request whose failure the panel shows.     *)
(***************************************************************************)
Files == {"f1", "f2"}
ProjectName == "blog"
Guidelines == {"", "g"}
LengthPreferences == {"auto", "custom"}
WritingStyles == {"balanced", "concise"}
TypedLengths == {"", "3000"}

\* parseInt(e.target.value, 10) || 2000
parseLength(typed) ==
    IF typed = "3000" THEN 3000 ELSE 2000

pathOf(file) == "uploads/" \o file

uploadRequest(files) ==
    [op |-> "upload", projectName |-> ProjectName, files |-> files,
     modelName |-> "gpt-4o-mini"]

processRequest(paths) ==
    [op |-> "process", modelName |-> "gpt-4o-mini", filePaths |-> paths]

\* the request object handleGenerateOutline builds from the form state
outlineRequest(f) ==
    [modelName |-> "gpt-4o",
     userGuidelines |-> IF f.userGuidelines = "" THEN Null ELSE Some(f.userGuidelines),
     lengthPreference |-> f.lengthPreference,
     customLength |-> IF f.lengthPreference = "custom" THEN Some(f.customLength) ELSE Null,
     writingStyle |-> f.writingStyle]

RetryIdle ==
    /\ route = "upload"
    /\ uploadPage = [selectedFiles |-> {}, uploadedFilePaths |-> {},
                     isUploading |-> FALSE, isProcessing |-> FALSE, error |-> Null,
                     lastFailedOperation |-> Null, request |-> Null, failed |-> Null]
    /\ outlinePage = [userGuidelines |-> "", lengthPreference |-> "auto",
                      customLength |-> 2000, writingStyle |-> "balanced",
                      status |-> "idle", outline |-> Null,
                      request |-> Null, failed |-> Null]

NotePage(op) == last' = [op |-> op, comp |-> route, key |-> "", prior |-> "", arg |-> ""]

isFilesUploaded == uploadPage.uploadedFilePaths # {}
canUpload ==
    uploadPage.selectedFiles # {} /\ ~uploadPage.isUploading /\ ~isFilesUploaded
canProcess == isFilesUploaded /\ ~uploadPage.isProcessing

handleFilesSelected(p, files) ==
    [p EXCEPT !.selectedFiles = files, !.error = Null]

\* handleUploadFiles up to the await
handleUploadFiles(p) ==
    IF p.selectedFiles = {} THEN p
    ELSE [p EXCEPT !.isUploading = TRUE, !.error = Null,
                   !.request = Some(uploadRequest(p.selectedFiles)), !.failed = Null]

\* handleProcessFiles up to the await
handleProcessFiles(p) ==
    IF p.uploadedFilePaths = {} THEN p
    ELSE [p EXCEPT !.isProcessing = TRUE, !.error = Null,
                   !.request = Some(processRequest(p.uploadedFilePaths)), !.failed = Null]

FilesSelected(files) ==
    /\ route = "upload"
    /\ ~(uploadPage.isUploading \/ uploadPage.isProcessing \/ isFilesUploaded)
    /\ uploadPage' = handleFilesSelected(uploadPage, files)
    /\ NotePage("filesSelected")
    /\ UNCHANGED <<route, outlinePage>>
    /\ UNCHANGED exceptRetry

ClickUpload ==
    /\ route = "upload"
    /\ ~isFilesUploaded
    /\ canUpload
    /\ uploadPage' = handleUploadFiles(uploadPage)
    /\ NotePage("upload")
    /\ UNCHANGED <<route, outlinePage>>
    /\ UNCHANGED exceptRetry

UploadSucceeds ==
    /\ route = "upload"
    /\ uploadPage.isUploading
    /\ uploadPage' = [uploadPage EXCEPT
                        !.uploadedFilePaths = {pathOf(f) : f \in uploadPage.request[1].files},
                        !.selectedFiles = {},
                        !.isUploading = FALSE]
    /\ NotePage("uploadSucceeds")
    /\ UNCHANGED <<route, outlinePage>>
    /\ UNCHANGED exceptRetry

UploadFails ==
    /\ route = "upload"
    /\ uploadPage.isUploading
    /\ uploadPage' = [uploadPage EXCEPT
                        !.error = Some("upload failed"),
                        !.lastFailedOperation = Some("upload"),
                        !.isUploading = FALSE,
                        !.failed = uploadPage.request]
    /\ NotePage("uploadFails")
    /\ UNCHANGED <<route, outlinePage>>
    /\ UNCHANGED exceptRetry

ClickProcess ==
    /\ route = "upload"
    /\ isFilesUploaded
    /\ canProcess
    /\ uploadPage' = handleProcessFiles(uploadPage)
    /\ NotePage("process")
    /\ UNCHANGED <<route, outlinePage>>
    /\ UNCHANGED exceptRetry

\* router.push(`/project/${id}/outline`)
ProcessSucceeds ==
    /\ route = "upload"
    /\ uploadPage.isProcessing
    /\ route' = "outline"
    /\ NotePage("processSucceeds")
    /\ UNCHANGED <<uploadPage, outlinePage>>
    /\ UNCHANGED exceptRetry

ProcessFails ==
    /\ route = "upload"
    /\ uploadPage.isProcessing
    /\ uploadPage' = [uploadPage EXCEPT
                        !.error = Some("process failed"),
                        !.lastFailedOperation = Some("process"),
                        !.isProcessing = FALSE,
                        !.failed = uploadPage.request]
    /\ NotePage("processFails")
    /\ UNCHANGED <<route, outlinePage>>
    /\ UNCHANGED exceptRetry

\* InlineError onRetry of the upload page
RetryUploadPage ==
    /\ route = "upload"
    /\ uploadPage.error # Null
    /\ LET cleared == [uploadPage EXCEPT !.error = Null]
       IN  uploadPage' = IF uploadPage.lastFailedOperation = Some("upload")
                         THEN handleUploadFiles(cleared)
                         ELSE handleProcessFiles(cleared)
    /\ NotePage("retry")
    /\ UNCHANGED <<route, outlinePage>>
    /\ UNCHANGED exceptRetry

\* InlineError onDismiss of the upload page
DismissUploadPage ==
    /\ route = "upload"
    /\ uploadPage.error # Null
    /\ uploadPage' = [uploadPage EXCEPT !.error = Null, !.lastFailedOperation = Null,
                                        !.failed = Null]
    /\ NotePage("dismiss")
    /\ UNCHANGED <<route, outlinePage>>
    /\ UNCHANGED exceptRetry

\* the settings form is rendered while no outline has been generated
FormShown == route = "outline" /\ outlinePage.outline = Null

SetForm(field, value) ==
    /\ FormShown
    /\ field = "customLength" => outlinePage.lengthPreference = "custom"
    /\ outlinePage' = [outlinePage EXCEPT ![field] = value]
    /\ NotePage("setForm")
    /\ UNCHANGED <<route, uploadPage>>
    /\ UNCHANGED exceptRetry

\* handleGenerateOutline up to the await
handleGenerateOutline(p) ==
    [p EXCEPT !.status = "pending", !.request = Some(outlineRequest(p)), !.failed = Null]

ClickGenerate ==
    /\ FormShown
    /\ outlinePage.status # "pending"
    /\ outlinePage' = handleGenerateOutline(outlinePage)
    /\ NotePage("generate")
    /\ UNCHANGED <<route, uploadPage>>
    /\ UNCHANGED exceptRetry

GenerateSucceeds ==
    /\ route = "outline"
    /\ outlinePage.status = "pending"
    /\ outlinePage' = [outlinePage EXCEPT !.status = "success", !.outline = Some("outline")]
    /\ NotePage("generateSucceeds")
    /\ UNCHANGED <<route, uploadPage>>
    /\ UNCHANGED exceptRetry

GenerateFails ==
    /\ route = "outline"
    /\ outlinePage.status = "pending"
    /\ outlinePage' = [outlinePage EXCEPT !.status = "error", !.failed = outlinePage.request]
    /\ NotePage("generateFails")
    /\ UNCHANGED <<route, uploadPage>>
    /\ UNCHANGED exceptRetry

\* InlineError onRetry of the outline page
RetryOutlinePage ==
    /\ FormShown
    /\ outlinePage.status = "error"
    /\ outlinePage' = handleGenerateOutline(outlinePage)
    /\ NotePage("retry")
    /\ UNCHANGED <<route, uploadPage>>
    /\ UNCHANGED exceptRetry

\* InlineError onDismiss of the outline page: generateOutlineMutation.reset()
DismissOutlinePage ==
    /\ FormShown
    /\ outlinePage.status = "error"
    /\ outlinePage' = [outlinePage EXCEPT !.status = "idle", !.failed = Null]
    /\ NotePage("dismiss")
    /\ UNCHANGED <<route, uploadPage>>
    /\ UNCHANGED exceptRetry

(***************************************************************************)
(* The project detail page (ProjectPage), in its two versions: page.tsx    *)
(* calls redirect inside the try blocks, the server version computes the   *)
(* path inside them and calls redirect after.  redirect() of               *)
(* next/navigation throws a NEXT_REDIRECT error carrying the URL; the      *)
(* framework performs the redirect when the error leaves the component,    *)
(* and a catch without a binding catches it like any other error.          *)
(***************************************************************************)
PageVersions == {"page", "server"}

STAGE_TO_PATH(stage) ==
    CASE stage = "upload" -> Some("upload")
      [] stage = "outline" -> Some("outline")
      [] stage = "drafting" -> Some("draft")
      [] stage = "refining" -> Some("refine")
      [] stage = "social" -> Some("social")
      [] stage = "complete" -> Some("social")
      [] OTHER -> Null

\* STAGE_TO_PATH[stage] ?? "upload"
pathOfStage(stage) ==
    IF STAGE_TO_PATH(stage) = Null THEN "upload" ELSE STAGE_TO_PATH(stage)[1]

\* what a fetch of the page gives: Null when it throws, else the stage
FetchResults == {Null} \cup {Some(stage) : stage \in Stages}

ProjIdle ==
    projectPage = [version |-> "", at |-> "idle", status |-> Null, project |-> Null,
                   path |-> "upload", redirected |-> Null]

NoteProj(op) ==
    last' = [op |-> op, comp |-> projectPage'.version, key |-> "", prior |-> "", arg |-> ""]

\* a request for /project/[id] renders the page
Visit(version) ==
    /\ projectPage.at \in {"idle", "done"}
    /\ projectPage' = [version |-> version, at |-> "status", status |-> Null,
                       project |-> Null, path |-> "upload", redirected |-> Null]
    /\ NoteProj("visit")
    /\ UNCHANGED exceptProj

\* the outer try block: await getProjectStatus(id) gives result
TryStatus(result) ==
    /\ projectPage.at = "status"
    /\ projectPage' =
          IF result = Null
          THEN [projectPage EXCEPT !.at = "project"]
          ELSE IF projectPage.version = "page"
               \* redirect(...) throws inside the try: the catch takes it
               THEN [projectPage EXCEPT !.status = result, !.at = "project"]
               ELSE [projectPage EXCEPT !.status = result,
                                        !.path = pathOfStage(result[1]),
                                        !.at = "redirect"]
    /\ NoteProj("tryStatus")
    /\ UNCHANGED exceptProj

\* the inner try block: await getProject(id) gives result
TryProject(result) ==
    /\ projectPage.at = "project"
    /\ projectPage' =
          IF result = Null
          THEN [projectPage EXCEPT !.path = "upload", !.at = "redirect"]
          ELSE IF projectPage.version = "page"
               \* redirect(...) throws inside the inner try: its catch takes it
               THEN [projectPage EXCEPT !.project = result, !.path = "upload",
                                        !.at = "redirect"]
               ELSE [projectPage EXCEPT !.project = result,
                                        !.path = pathOfStage(result[1]),
                                        !.at = "redirect"]
    /\ NoteProj("tryProject")
    /\ UNCHANGED exceptProj

\* the redirect outside every try block: its error leaves the component
Redirect ==
    /\ projectPage.at = "redirect"
    /\ projectPage' = [projectPage EXCEPT !.redirected = Some(projectUrl(projectPage.path)),
                                          !.at = "done"]
    /\ NoteProj("redirect")
    /\ UNCHANGED exceptProj

(***************************************************************************)
(* Optimistic project deletion (useDeleteProject) driven by the            *)
(* confirmation dialog (DeleteProjectDialog).  The dialog's Delete button  *)
(* is disabled while the dialog's own mutation observer is pending; the    *)
(* dashboard page mounts the dialog, so leaving the page and coming back   *)
(* mounts a new one, with a new observer, while a mutation started by the  *)
(* old one is still running in the query client.                           *)
(***************************************************************************)
OriginalProjects == <<"a", "b">>

\* previousProjects.filter((p) => p.id !== deletedId)
without(projects, deletedId) == SelectSeq(projects, LAMBDA p : p # deletedId)

ids(projects) == {projects[i] : i \in DOMAIN projects}

DeleteIdle ==
    /\ cache = Some(OriginalProjects)
    /\ server = ids(OriginalProjects)
    /\ mutations = <<>>
    /\ dialog = [open |-> FALSE, projectId |-> Null, observed |-> 0]
    /\ refetching = FALSE
    /\ reconciled = FALSE

NoteDel(op, id) == last' = [op |-> op, comp |-> "dialog", key |-> id, prior |-> "", arg |-> ""]

\* deleteProject.isPending of the mounted dialog
isPending ==
    /\ dialog.observed # 0
    /\ mutations[dialog.observed].status = "pending"

\* a click on Delete in a row of the project list
OpenDeleteConfirmModal(id) ==
    /\ ~dialog.open
    /\ cache # Null
    /\ id \in ids(cache[1])
    /\ dialog' = [dialog EXCEPT !.open = TRUE, !.projectId = Some(id)]
    /\ NoteDel("openDeleteConfirmModal", id)
    /\ UNCHANGED <<cache, server, mutations, refetching, reconciled>>
    /\ UNCHANGED exceptDelete

\* Escape in the dialog: onOpenChange(false)
CloseDeleteConfirmModal ==
    /\ dialog.open
    /\ dialog' = [dialog EXCEPT !.open = FALSE, !.projectId = Null]
    /\ NoteDel("closeDeleteConfirmModal", "")
    /\ UNCHANGED <<cache, server, mutations, refetching, reconciled>>
    /\ UNCHANGED exceptDelete

\* the dashboard page is left and entered again: a new dialog instance
Remount ==
    /\ dialog.observed # 0
    /\ dialog' = [dialog EXCEPT !.observed = 0]
    /\ NoteDel("remount", "")
    /\ UNCHANGED <<cache, server, mutations, refetching, reconciled>>
    /\ UNCHANGED exceptDelete

\* handleDelete up to the await, with the mutation's onMutate
HandleDelete ==
    /\ dialog.open
    /\ ~isPending
    /\ dialog.projectId # Null
    /\ Len(mutations) < MaxMutations
    /\ LET deletedId == dialog.projectId[1]
           previousProjects == cache
       IN  /\ refetching' = FALSE
           /\ cache' = IF previousProjects # Null
                       THEN Some(without(previousProjects[1], deletedId))
                       ELSE cache
           /\ mutations' = Append(mutations, [project |-> deletedId, status |-> "pending",
                                              context |-> previousProjects])
           /\ dialog' = [dialog EXCEPT !.observed = Len(mutations) + 1]
           /\ NoteDel("handleDelete", deletedId)
    /\ UNCHANGED <<server, reconciled>>
    /\ UNCHANGED exceptDelete

\* the DELETE request of mutation m succeeds: onSettled, closeDeleteConfirmModal
DeleteSucceeds(m) ==
    /\ m \in DOMAIN mutations
    /\ mutations[m].status = "pending"
    /\ mutations[m].project \in server
    /\ server' = server \ {mutations[m].project}
    /\ mutations' = [mutations EXCEPT ![m].status = "success"]
    /\ refetching' = TRUE
    /\ dialog' = [dialog EXCEPT !.open = FALSE, !.projectId = Null]
    /\ NoteDel("deleteSucceeds", mutations[m].project)
    /\ UNCHANGED <<cache, reconciled>>
    /\ UNCHANGED exceptDelete

\* the DELETE request of mutation m fails: onError, onSettled
DeleteFails(m) ==
    /\ m \in DOMAIN mutations
    /\ mutations[m].status = "pending"
    /\ cache' = IF mutations[m].context # Null THEN mutations[m].context ELSE cache
    /\ mutations' = [mutations EXCEPT ![m].status = "error"]
    /\ refetching' = TRUE
    /\ NoteDel("deleteFails", mutations[m].project)
    /\ UNCHANGED <<server, dialog, reconciled>>
    /\ UNCHANGED exceptDelete

\* the refetch of the invalidated list resolves with the server's list
RefetchCompletes ==
    /\ refetching
    /\ cache' = Some(SelectSeq(OriginalProjects, LAMBDA p : p \in server))
    /\ refetching' = FALSE
    /\ reconciled' = TRUE
    /\ NoteDel("refetchCompletes", "")
    /\ UNCHANGED <<server, mutations, dialog>>
    /\ UNCHANGED exceptDelete

(***************************************************************************)
(* The draft page (DraftPage): the draftSections' generation states.  A call of *)
(* handleGenerateSection is a handler record that moves from the await of  *)
(* the mutation to the await of refetchStatus and ends in the finally      *)
(* block.                                                                  *)
(***************************************************************************)
\* prev.map((s) => (s.index === sectionIndex ? { ...s, status, content } : s))
markSection(prev, sectionIndex, status, content) ==
    [i \in DOMAIN prev |->
        IF prev[i].index = sectionIndex
        THEN [prev[i] EXCEPT !.status = status, !.content = content]
        ELSE prev[i]]

\* the useEffect's initialSections for an outline of n sections
initialSections(n, completedSections) ==
    [i \in 1..n |->
        [index |-> i - 1,
         status |-> IF completedSections > i - 1 THEN "completed" ELSE "pending",
         content |-> Null]]

DraftIdle ==
    /\ draftSections = <<>>
    /\ generatingSectionIndex = Null
    /\ handlers = {}

NoteDraft(op, sectionIndex) ==
    last' = [op |-> op, comp |-> "draft", key |-> ToString(sectionIndex), prior |-> "",
             arg |-> ""]

\* the useEffect that initializes the sections from the project status
InitializeSections(n, completedSections) ==
    /\ Len(draftSections) = 0
    /\ draftSections' = initialSections(n, completedSections)
    /\ NoteDraft("initializeSections", n)
    /\ UNCHANGED <<generatingSectionIndex, handlers>>
    /\ UNCHANGED exceptDraft

\* a Generate button that takes every click
canGenerate_ungated(section) ==
    section.status = "pending"

\* the Generate button of a section is rendered and enabled
canGenerate(section) ==
    section.status = "pending" /\ generatingSectionIndex = Null

\* handleGenerateSection up to the await of mutateAsync
HandleGenerateSection(sectionIndex) ==
    /\ \E i \in DOMAIN draftSections :
          draftSections[i].index = sectionIndex /\ canGenerate(draftSections[i])
    /\ generatingSectionIndex' = Some(sectionIndex)
    /\ draftSections' = markSection(draftSections, sectionIndex, "generating",
                               draftSections[sectionIndex + 1].content)
    /\ handlers' = handlers \cup {[sectionIndex |-> sectionIndex, at |-> "mutate"]}
    /\ NoteDraft("handleGenerateSection", sectionIndex)
    /\ UNCHANGED exceptDraft

\* mutateAsync resolves: the section is completed, refetchStatus is awaited
GenerateSectionSucceeds(h) ==
    /\ h \in handlers
    /\ h.at = "mutate"
    /\ draftSections' = markSection(draftSections, h.sectionIndex, "completed", Some("content"))
    /\ handlers' = (handlers \ {h}) \cup {[h EXCEPT !.at = "refetch"]}
    /\ NoteDraft("generateSectionSucceeds", h.sectionIndex)
    /\ UNCHANGED generatingSectionIndex
    /\ UNCHANGED exceptDraft

\* mutateAsync rejects: the catch block and the finally block
GenerateSectionFails(h) ==
    /\ h \in handlers
    /\ h.at = "mutate"
    /\ draftSections' = markSection(draftSections, h.sectionIndex, "pending",
                               draftSections[h.sectionIndex + 1].content)
    /\ generatingSectionIndex' = Null
    /\ handlers' = handlers \ {h}
    /\ NoteDraft("generateSectionFails", h.sectionIndex)
    /\ UNCHANGED exceptDraft

\* refetchStatus resolves: the finally block
RefetchStatusResolves(h) ==
    /\ h \in handlers
    /\ h.at = "refetch"
    /\ generatingSectionIndex' = Null
    /\ handlers' = handlers \ {h}
    /\ NoteDraft("refetchStatusResolves", h.sectionIndex)
    /\ UNCHANGED draftSections
    /\ UNCHANGED exceptDraft

MoreIdle ==
    /\ QueryIdle
    /\ RetryIdle
    /\ ProjIdle
    /\ DeleteIdle
    /\ DraftIdle

EditIdle ==
    /\ editing = NoEdit
    /\ editValue = <<>>
    /\ updates = 0
    /\ editStart = Null

NavIdle ==
    /\ currentStage = "upload"
    /\ stepperPath = projectUrl("upload")
    /\ tabsPath = projectUrl("upload")

ApiIdle ==
    /\ response = Null
    /\ pc = At("", "idle")
    /\ outcome = Null

EdIdle ==
    /\ outline = <<>>
    /\ draggedItem = NoItem
    /\ dragOverItem = NoItem
    /\ disabled = FALSE

Init ==
    /\ RegInit
    /\ EdIdle
    /\ EditIdle
    /\ NavIdle
    /\ ApiIdle
    /\ MoreIdle
    /\ last = [op |-> "init", comp |-> "", key |-> "", prior |-> "", arg |-> ""]

Next ==
    \/ \E c \in Comps, m \in {Null} \cup {Some(x) : x \in Messages}, o \in Orders :
          Start(c, m, o)
    \/ \E r \in requests, e \in Errors, onLine \in BOOLEAN : SetError(r, e, onLine)
    \/ \E c \in Comps, r \in {Null} \cup {Some(x) : x \in requests} : Clear(c, r)
    \/ \E c \in Comps : Cancel(c)
    \/ \E k \in Keys : IncrementRetryCount(k)

Spec == Init /\ [][Next]_vars

InitOutline ==
    /\ RegInit
    /\ outline \in Outlines
    /\ draggedItem = NoItem
    /\ dragOverItem = NoItem
    /\ disabled = FALSE
    /\ EditIdle
    /\ NavIdle
    /\ ApiIdle
    /\ MoreIdle
    /\ last = [op |-> "init", comp |-> "", key |-> "", prior |-> "", arg |-> ""]

NextOutline ==
    \/ \E it \in Rendered(outline) : HandleDragStart(it)
    \/ \E it \in Rendered(outline) : HandleDragOver(it)
    \/ HandleDragLeave
    \/ HandleDrop
    \/ HandleDragEnd
    \/ SetDisabled

SpecOutline == InitOutline /\ [][NextOutline]_vars

\* the outlines the inline-edit specification opens the editor on
EditOutlines ==
    { << sec("a", Some(<<sub("x")>>)), sec("b", Null) >> }

InitEdit ==
    /\ RegInit
    /\ outline \in EditOutlines
    /\ draggedItem = NoItem
    /\ dragOverItem = NoItem
    /\ disabled = FALSE
    /\ EditIdle
    /\ NavIdle
    /\ ApiIdle
    /\ MoreIdle
    /\ last = [op |-> "init", comp |-> "", key |-> "", prior |-> "", arg |-> ""]

NextEdit ==
    \/ \E it \in Rendered(outline), f \in Fields : StartEditing(it, f)
    \/ \E buf \in Typed : SetEditValue(buf)
    \/ SaveEditing
    \/ KeyEscape
    \/ ClickCancel
    \/ \E t \in Times, r \in Randoms : ClickAddSection(t, r)
    \/ \E id \in sectionIds(outline) \cup {AbsentId} : ClickDeleteSection(id)
    \/ \E id \in sectionIds(outline) \cup {AbsentId}, t \in Times, r \in Randoms :
          ClickAddSubsection(id, t, r)
    \/ \E id \in sectionIds(outline) \cup {AbsentId},
          subId \in subsectionIds(outline) \cup {AbsentId} : ClickDeleteSubsection(id, subId)
    \/ SetDisabled

SpecEdit == InitEdit /\ [][NextEdit]_vars

NextNav ==
    \/ \E i \in 0..(Len(WORKFLOW_STEPS) - 1) : StepClick(i)
    \/ \E i \in 0..(Len(WORKFLOW_TABS) - 1) : TabClick(i)
    \/ \E stage \in Stages : SetStage(stage)

SpecNav == Init /\ [][NextNav]_vars

\* the errors a failed request of a page can hand to setError: a
\* cancellation, a network error, and gateway errors of these statuses
ErrorStatuses == {400, 401, 403, 404, 409, 422, 429, 500, 502, 503}
AllErrors == {AbortErr, NetErr} \cup {ApiErr(st) : st \in ErrorStatuses}

\* one hook instance whose requests fail with any of these errors
NextTranslate ==
    \/ \E m \in {Null} \cup {Some(x) : x \in Messages} : Start("c1", m, "setLoadingFirst")
    \/ \E r \in requests, e \in AllErrors, onLine \in BOOLEAN : SetError(r, e, onLine)
    \/ \E r \in {Null} \cup {Some(x) : x \in requests} : Clear("c1", r)
    \/ Cancel("c1")

SpecTranslate == Init /\ [][NextTranslate]_vars

QueryAttemptEnds ==
    \/ QuerySucceeds
    \/ \E e \in AllErrors, onLine \in BOOLEAN : QueryFails(e, onLine)

NextQuery ==
    \/ Fetch
    \/ QuerySucceeds
    \/ \E e \in AllErrors, onLine \in BOOLEAN : QueryFails(e, onLine)
    \/ RetryTimer
    \/ Mutate
    \/ MutationSucceeds
    \/ \E e \in AllErrors : MutationFails(e)

SpecQuery == Init /\ [][NextQuery]_vars

\* a running query function settles and a backoff timer fires
SpecQueryFair ==
    /\ Init
    /\ [][NextQuery]_vars
    /\ WF_vars(QueryAttemptEnds)
    /\ WF_vars(RetryTimer)

NextPages ==
    \/ \E files \in SUBSET Files : FilesSelected(files)
    \/ ClickUpload
    \/ UploadSucceeds
    \/ UploadFails
    \/ ClickProcess
    \/ ProcessSucceeds
    \/ ProcessFails
    \/ RetryUploadPage
    \/ DismissUploadPage
    \/ \E g \in Guidelines : SetForm("userGuidelines", g)
    \/ \E l \in LengthPreferences : SetForm("lengthPreference", l)
    \/ \E t \in TypedLengths : SetForm("customLength", parseLength(t))
    \/ \E w \in WritingStyles : SetForm("writingStyle", w)
    \/ ClickGenerate
    \/ GenerateSucceeds
    \/ GenerateFails
    \/ RetryOutlinePage
    \/ DismissOutlinePage

SpecPages == Init /\ [][NextPages]_vars

NextProject ==
    \/ \E version \in PageVersions : Visit(version)
    \/ \E result \in FetchResults : TryStatus(result)
    \/ \E result \in FetchResults : TryProject(result)
    \/ Redirect

SpecProject == Init /\ [][NextProject]_vars

NextDelete ==
    \/ \E id \in ids(OriginalProjects) : OpenDeleteConfirmModal(id)
    \/ CloseDeleteConfirmModal
    \/ Remount
    \/ HandleDelete
    \/ \E m \in 1..MaxMutations : DeleteSucceeds(m)
    \/ \E m \in 1..MaxMutations : DeleteFails(m)
    \/ RefetchCompletes

SpecDelete == Init /\ [][NextDelete]_vars

NextDraft ==
    \/ \E n \in 1..MaxSections, completedSections \in 0..MaxSections :
          InitializeSections(n, completedSections)
    \/ \E sectionIndex \in 0..(MaxSections - 1) : HandleGenerateSection(sectionIndex)
    \/ \E h \in handlers : GenerateSectionSucceeds(h)
    \/ \E h \in handlers : GenerateSectionFails(h)
    \/ \E h \in handlers : RefetchStatusResolves(h)

SpecDraft == Init /\ [][NextDraft]_vars

NextApi ==
    \/ \E fn \in Clients, resp \in Responses : Fetched(fn, resp)
    \/ Branch
    \/ ErrorJson
    \/ ErrorText
    \/ DataJson
    \/ Settled

SpecApi == Init /\ [][NextApi]_vars

(***************************************************************************)
(* Claims about the operation-status registry                              *)
(***************************************************************************)
recordOf(ops, key) == spreadStatus(ops, key)

\* r belongs to an operation instance that a later start on the same key has
\* superseded, and the record shows that later start in flight
Superseded(r) ==
    /\ KeyOf(r.comp) \in DOMAIN operations
    /\ operations[KeyOf(r.comp)].isLoading
    /\ \E c \in Comps : KeyOf(c) = KeyOf(r.comp) /\ abortControllerRef[c] > r.start

\* C1: a failure callback of an operation instance that a newer start on the
\* same key has superseded does not change the registry: the record still
\* shows the newer start (isLoading, its loadingMessage, error = null).
C1_StaleFailureIgnored ==
    [][\A r \in requests, e \in Errors, o \in BOOLEAN :
          (Superseded(r) /\ SetError(r, e, o)) => operations' = operations]_vars

\* C2: once a newer operation has been started under a key, the signal handed
\* to the request of the prior operation under that key is aborted.
C2_PriorSignalAborted ==
    \A r \in requests :
        (/\ r.signal # 0
         /\ \E c \in Comps : KeyOf(c) = KeyOf(r.comp) /\ abortControllerRef[c] > r.start)
        => r.signal \in aborted

\* C3: after cancel(), whichever order setLoading and getSignal were called in,
\* the signal held by the request of the cancelled operation is aborted and the
\* registry has no record for the key.
C3_CancelAbortsRequest ==
    [][\A c \in Comps :
          Cancel(c) =>
            /\ KeyOf(c) \notin DOMAIN operations'
            /\ \A r \in requests :
                  (r.comp = c /\ r.start = abortControllerRef[c] /\ r.signal # 0)
                  => r.signal \in aborted']_vars

\* C4: once cancel() has removed the record, the AbortError rejection of the
\* aborted request arriving at setError leaves the key without a record.
C4_CancelledStaysCleared ==
    [][\A r \in requests, o \in BOOLEAN :
          (KeyOf(r.comp) \notin DOMAIN operations /\ SetError(r, AbortErr, o))
          => KeyOf(r.comp) \notin DOMAIN operations']_vars

\* the live tokens of a key: the controllers the hook instances tracking the key
\* hold that are not aborted
LiveTokens(k) ==
    {abortControllerRef[c] : c \in {d \in Comps : KeyOf(d) = k}} \ ({0} \cup aborted)

\* C5: every key has at most one live cancellation token, counting all hook
\* instances that track it, and no request is handed a signal that was
\* cancelled before its start.
C5_OneLiveToken ==
    /\ \A k \in Keys : Cardinality(LiveTokens(k)) <= 1
    /\ last.op = "start" =>
          \A r \in requests : r.start = nextCtl => r.signal \notin aborted

\* C6: start(message) from any prior state of the key yields a record with
\* isLoading = true, loadingMessage = message (the default message when none
\* is given) and error = null, and the hook holds a token that did not exist
\* before and is not aborted.
C6_StartYieldsLoading ==
    [][\A c \in Comps, m \in {Null} \cup {Some(x) : x \in Messages}, o \in Orders :
          (last'.op = "start" /\ last'.comp = c /\ Start(c, m, o)) =>
            /\ KeyOf(c) \in DOMAIN operations'
            /\ operations'[KeyOf(c)].isLoading = TRUE
            /\ operations'[KeyOf(c)].loadingMessage =
                  (IF m = Null THEN Some(defaultMessage) ELSE m)
            /\ operations'[KeyOf(c)].error = Null
            /\ abortControllerRef'[c] > nextCtl
            /\ abortControllerRef'[c] \notin aborted']_vars

\* a start has just replaced a record that held an error
C6_Witness ==
    /\ last.op = "start" /\ last.prior = "error"
    /\ operations[last.key].isLoading /\ operations[last.key].error = Null

\* C7: retryCount of a key changes only by +1 through incrementRetryCount or
\* back to 0 when clear/cancel removes the record; start and fail leave it
\* unchanged, and incrementRetryCount leaves isLoading, loadingMessage and
\* error unchanged.
C7_RetryCountFrame ==
    [][\A k \in Keys :
          LET old == recordOf(operations, k)
              new == recordOf(operations', k)
          IN  /\ new.retryCount # old.retryCount =>
                    \/ IncrementRetryCount(k) /\ new.retryCount = old.retryCount + 1
                    \/ /\ k \notin DOMAIN operations'
                       /\ \E c \in Comps : /\ KeyOf(c) = k
                                            /\ \/ Cancel(c)
                                               \/ Clear(c, Null)
                                               \/ \E r \in requests : Clear(c, Some(r))
              /\ (last'.op = "incrementRetryCount" /\ IncrementRetryCount(k)) =>
                    /\ new.retryCount = old.retryCount + 1
                    /\ new.isLoading = old.isLoading
                    /\ new.loadingMessage = old.loadingMessage
                    /\ new.error = old.error]_vars

\* a failure has just been recorded on a key whose retryCount was incremented
C7_Witness ==
    /\ last.op = "setError" /\ last.key \in DOMAIN operations
    /\ operations[last.key].retryCount = 1 /\ operations[last.key].error # Null

\* some registry operation acts on key k in this step
OpOn(k) ==
    /\ last'.key = k
    /\ \/ \E c \in Comps :
             /\ KeyOf(c) = k
             /\ \/ \E m \in {Null} \cup {Some(x) : x \in Messages}, o \in Orders :
                      Start(c, m, o)
                \/ Cancel(c)
                \/ Clear(c, Null)
                \/ \E r \in requests : Clear(c, Some(r))
       \/ \E r \in requests, e \in Errors, o \in BOOLEAN :
             KeyOf(r.comp) = k /\ SetError(r, e, o)
       \/ IncrementRetryCount(k)

\* C8: a registry operation on key k leaves the record of every other key
\* unchanged, including whether it exists: a step that changes the record of
\* k2 is not an operation on any other key.
C8_KeysIndependent ==
    [][\A k2 \in Keys :
          getOperation(operations', k2) # getOperation(operations, k2)
          => \A k \in Keys \ {k2} : ~OpOn(k)]_vars

\* a cancel on k1 has just run while k2 holds a record of an operation in flight
C8_Witness ==
    /\ last.op = "cancel" /\ last.key = "k1" /\ aborted # {}
    /\ "k2" \in DOMAIN operations /\ operations["k2"].isLoading

(***************************************************************************)
(* Claims about the outline editor                                         *)
(***************************************************************************)
idsOf(seq) == [i \in DOMAIN seq |-> seq[i].id]

\* new is old with the element at fromIndex moved to index toIndex and nothing
\* else disturbed; old itself when either index is missing or they coincide
MovedTo(old, new, fromIndex, toIndex) ==
    IF fromIndex = 0 \/ toIndex = 0 \/ fromIndex = toIndex THEN new = old
    ELSE /\ Len(new) = Len(old)
         /\ {new[i].id : i \in DOMAIN new} = {old[i].id : i \in DOMAIN old}
         /\ new[toIndex] = old[fromIndex]
         /\ removeAt(new, toIndex) = removeAt(old, fromIndex)

\* source and target of a drop are of the same kind and, for subsections, of
\* the same parent section
SameKindAndParent(dragged, over) ==
    /\ dragged.type = over.type
    /\ dragged.type = "subsection" => dragged.sectionId = over.sectionId

Targets(sections, ed) ==
    IF ed.type = "section"
      THEN {<<i, 0>> : i \in {k \in DOMAIN sections : sections[k].id = ed.sectionId}}
      ELSE UNION { IF sections[i].id # ed.sectionId \/ sections[i].subsections = Null THEN {}
                   ELSE {<<i, j>> : j \in {k \in DOMAIN sections[i].subsections[1] :
                                      sections[i].subsections[1][k].id = ed.subsectionId}} :
                   i \in DOMAIN sections }

\* sections with one field of the entity at position p set to value
setAt(sections, p, field, value) ==
    IF p[2] = 0
      THEN [sections EXCEPT ![p[1]] = setField(@, field, value)]
      ELSE [sections EXCEPT ![p[1]].subsections =
              Some([@[1] EXCEPT ![p[2]] = setField(@, field, value)])]

\* what a commit does to the document
CommitEffect ==
    (last'.op \in {"saveEditing", "cancelButton"} /\ editing # NoEdit) =>
       IF trim(editValue) = "" THEN outline' = outline
       ELSE \E p \in Targets(outline, editing) :
               outline' = setAt(outline, p, editing.field, trim(editValue))

\* C11: a commit of an inline edit leaves the document unchanged when the
\* trimmed buffer is empty, and otherwise sets exactly one field of exactly
\* one entity, the targeted one, to the trimmed buffer, everything else and
\* the order of sections and subsections staying as they were.
C11_CommitSetsOneField == [][CommitEffect]_vars

\* C12: the Escape key and the Cancel button end an edit with the buffer
\* discarded and the document equal to what it was when the edit began,
\* whatever was typed.
C12_CancelDiscards ==
    [][ (last'.op \in {"escape", "cancelButton"} /\ editStart # Null) =>
          /\ outline' = editStart[1]
          /\ editing' = NoEdit
          /\ editValue' = <<>> ]_vars

\* the subsection ids of the sections called sectionId
subsOf(sections, sectionId) ==
    UNION { IF sections[i].id # sectionId \/ sections[i].subsections = Null THEN {}
            ELSE {sections[i].subsections[1][j].id : j \in DOMAIN sections[i].subsections[1]} :
            i \in DOMAIN sections }

\* what deleteSection, addSubsection and deleteSubsection do to the document
\* they are given
DeleteEffect ==
    (last'.op \in {"deleteSection", "addSubsection", "deleteSubsection"}) =>
       /\ (last'.op = "deleteSection" /\ last'.key \notin sectionIds(blurred))
             => outline' = blurred
       /\ (last'.op = "deleteSection" /\ last'.key \in sectionIds(blurred) /\ ~disabled)
             => \E i \in DOMAIN blurred :
                   blurred[i].id = last'.key /\ outline' = removeAt(blurred, i)
       /\ (last'.op = "addSubsection" /\ last'.key \notin sectionIds(blurred))
             => outline' = blurred
       /\ (last'.op = "deleteSubsection"
             /\ (\/ last'.key \notin sectionIds(blurred)
                 \/ last'.arg \notin subsOf(blurred, last'.key)))
             => outline' = blurred

\* C13: deleting a section id that is not in the document, deleting a
\* subsection id that is not in the given section, and adding or deleting a
\* subsection under a section id that does not exist leave the document's
\* content unchanged; deleting an existing section removes that one section
\* and leaves its siblings and their order as they were.
C13_AbsentIdsAreNoOps == [][DeleteEffect]_vars

\* section ids pairwise distinct, subsection ids distinct within each section
UniqueIds(sections) ==
    /\ \A i, j \in DOMAIN sections : i # j => sections[i].id # sections[j].id
    /\ \A i \in DOMAIN sections :
          sections[i].subsections # Null =>
            \A j, k \in DOMAIN sections[i].subsections[1] :
               j # k => sections[i].subsections[1][j].id # sections[i].subsections[1][k].id

\* C14: identifiers stay unique (section ids within the document, subsection
\* ids within their section) whatever is added, deleted or renamed, and the
\* id an add produces differs from every id in the document.
C14_IdsStayUnique ==
    /\ [](UniqueIds(outline))
    /\ [][ (last'.op \in {"addSection", "addSubsection"} /\ ~disabled) =>
             last'.arg \notin sectionIds(blurred) \cup subsectionIds(blurred) ]_vars

\* the effects of commits and deletions on the documents whose identifiers
\* are unique
EffectsFromUniqueIds ==
    [][ UniqueIds(blurred) => (CommitEffect /\ DeleteEffect) ]_vars

(***************************************************************************)
(* Claims about the project navigation                                     *)
(***************************************************************************)
StepIndexes == 0..(Len(WORKFLOW_STEPS) - 1)
SixStages == {STAGE_ORDER[i] : i \in DOMAIN STAGE_ORDER}

\* C15: a click on a stepper marker whose state is current or future pushes
\* no url and leaves the location alone, and a click on a completed marker
\* (index below the current step) pushes that step's path, for every current
\* stage, complete included.
C15_OnlyCompletedStepsNavigate ==
    [][ last'.op = "stepClick" =>
          LET i == indexOf(WORKFLOW_STEPS, last'.key)
              state == getStepState(i, displayStepIndex(currentStage))
              url == projectUrl(getStepPath(last'.key))
          IN  /\ state \in {"current", "future"} =>
                    last'.arg = "" /\ stepperPath' = stepperPath
              /\ state = "completed" => last'.arg = url /\ stepperPath' = url ]_vars

C15_Witness ==
    /\ last.op = "stepClick"
    /\ currentStage = "complete"
    /\ last.arg = projectUrl("refine")
    /\ stepperPath = projectUrl("refine")

\* the steps a click navigates to under each layout
StepperNavigable(stage) ==
    {i \in StepIndexes : handleStepClick(i, displayStepIndex(stage))
                          /\ layoutHandleStepClick(i, stage) # ""}
TabsNavigable(stage) ==
    {i \in StepIndexes : handleTabClick(WORKFLOW_TABS[i + 1], stage) # ""}
StrictlyBefore(stage) == {i \in StepIndexes : i < indexOf(STAGE_ORDER, stage)}

\* C16: under the tab layout and under the stepper layout alike, the steps a
\* click navigates to are exactly the stages strictly before the current
\* stage; a click on the current or a later stage does nothing.
C16_SameNavigationContract ==
    /\ StepperNavigable(currentStage) = StrictlyBefore(currentStage)
    /\ TabsNavigable(currentStage) = StrictlyBefore(currentStage)
    /\ (last.op = "tabClick" /\ last.arg # "")
          => indexOf(STAGE_ORDER, last.key) < indexOf(STAGE_ORDER, currentStage)

leq(p, q) == p.num * q.den <= q.num * p.den
fillOf(stage) == progressPercent(Len(WORKFLOW_STEPS), displayStepIndex(stage))

\* C17: the fill percentage is currentIndex / (stepCount - 1) * 100, and 0
\* for a single step; over the five visible steps it is 0 at the first step,
\* 100 at the last, within 0..100, and does not decrease as the current
\* stage moves up through the six stages.
C17_FillPercent ==
    /\ \A n \in 1..MaxSteps : \A k \in 0..(n - 1) :
          LET p == progressPercent(n, k)
          IN  /\ p.den > 0 /\ 0 <= p.num /\ p.num <= 100 * p.den
              /\ n = 1 => p.num = 0
              /\ n > 1 => p.num * (n - 1) = k * 100 * p.den
    /\ currentStage \in SixStages =>
          LET p == fillOf(currentStage)
          IN  /\ 0 <= p.num /\ p.num <= 100 * p.den
              /\ currentStage = "upload" => p.num = 0
              /\ currentStage \in {"social", "complete"} => p.num = 100 * p.den
              /\ \A later \in SixStages :
                    indexOf(STAGE_ORDER, currentStage) <= indexOf(STAGE_ORDER, later)
                      => leq(p, fillOf(later))

C17_Witness == last.op = "setStage" /\ currentStage = "complete"

\* C18: every step is completed, current or future and nothing else;
\* completed are the steps below the current index, future those above it,
\* and at most one step is current.
C18_StepStatesPartition ==
    LET cur == displayStepIndex(currentStage)
        stateOf == [i \in StepIndexes |-> getStepState(i, cur)]
    IN  /\ \A i \in StepIndexes :
              /\ stateOf[i] \in {"completed", "current", "future"}
              /\ stateOf[i] = "completed" <=> i < cur
              /\ stateOf[i] = "future" <=> i > cur
        /\ Cardinality({i \in StepIndexes : stateOf[i] = "current"}) <= 1

C18_Witness == last.op = "setStage" /\ currentStage = "drafting"

\* C19: whatever stage the layout receives, one of the six or an unmapped
\* one, the step index it hands to the stepper is in 0..stepCount-1, and
\* complete is shown as the last visible step.
C19_StepIndexInRange ==
    /\ displayStepIndex(currentStage) \in 0..(Len(WORKFLOW_STEPS) - 1)
    /\ currentStage = "complete" => displayStepIndex(currentStage) = Len(WORKFLOW_STEPS) - 1

(***************************************************************************)
(* Claims about the gateway clients                                        *)
(***************************************************************************)
\* C20: for a non-success response, whether or not its body parses as JSON,
\* either client fails with an ApiClientError that carries the HTTP status
\* and the body as details (the parsed JSON when it parses, the raw text
\* otherwise), and with no other kind of error.
C20_NonSuccessIsApiClientError ==
    (pc.at = "done" /\ ~ok(response[1])) =>
       /\ outcome # Null
       /\ outcome[1].kind = "ApiClientError"
       /\ outcome[1].status = response[1].status
       /\ outcome[1].details =
            Some(IF response[1].body.json # Null THEN response[1].body.json[1]
                 ELSE response[1].body.raw)

(***************************************************************************)
(* Claims about error translation and automatic retry                      *)
(***************************************************************************)
\* the OperationError a setError step stored
storedError == operations'[last'.key].error[1]

\* the step is setError(e) read with navigator.onLine = onLine
IsSetErrorOf(e, onLine) ==
    /\ last'.op = "setError"
    /\ operations' = setOperationError(operations, last'.key, operationError(e, onLine))

\* C21: setError turns an ApiClientError of status s into an OperationError
\* with the sign-in message for 401, the no-permission message for 403, the
\* not-found message for 404 and the server-error message for s >= 500, with
\* code s, and with retryable true exactly when s >= 500.
C21_ApiErrorTranslation ==
    [][ last'.op = "setError" =>
          \A st \in ErrorStatuses, onLine \in BOOLEAN :
             IsSetErrorOf(ApiErr(st), onLine) =>
                /\ storedError.code = Some(ToString(st))
                /\ storedError.retryable = (st >= 500)
                /\ st = 401 => storedError.message = "Please sign in to continue"
                /\ st = 403 => storedError.message = "You don't have permission for this action"
                /\ st = 404 => storedError.message = "The requested resource was not found"
                /\ st >= 500 => storedError.message = "Server error. Please try again later." ]_vars

C21_Witness ==
    /\ last.op = "setError"
    /\ operations[last.key].error # Null
    /\ operations[last.key].error[1].code = Some("403")
    /\ operations[last.key].error[1].retryable = FALSE

IsClientError(e) == e.name = "ApiClientError" /\ e.status >= 400 /\ e.status <= 499

\* C22: the query layer's retry predicate returns false for every
\* ApiClientError with a status in 400..499, at any failure count, on line
\* or off line: a query that failed with such an error is never retried.
C22_ClientErrorsNeverRetried ==
    /\ \A e \in AllErrors, fc \in 0..RetryLimit, onLine \in BOOLEAN :
          IsClientError(e) => ~retry(fc, e, onLine)
    /\ query.status = "waiting" => ~IsClientError(query.error[1])

C24_NetworkErrorRetryable ==
    /\ [](\A e \in AllErrors, fc \in 0..RetryLimit : ~retry(fc, e, FALSE))
    /\ [][ last'.op = "setError" =>
             \A onLine \in BOOLEAN :
                IsSetErrorOf(NetErr, onLine) => storedError.retryable = onLine ]_vars

(***************************************************************************)
(* Claims about the pages                                                  *)
(***************************************************************************)
\* the page the handler that ran last belongs to, after it ran
pageOf(r, up, op) == IF r = "upload" THEN up ELSE op

\* C25: a click on Retry in the inline error panel sends a request with
\* exactly the parameters of the request that failed, whatever the user
\* changed in the form or the file selection in between.
C25_RetryReplaysFailedRequest ==
    [][ last'.op = "retry" =>
          /\ pageOf(route, uploadPage, outlinePage).failed # Null
          /\ pageOf(route, uploadPage', outlinePage').request
                = pageOf(route, uploadPage, outlinePage).failed ]_vars

\* the path the fallback chain names
chainPath(status, project) ==
    IF status # Null THEN pathOfStage(status[1])
    ELSE IF project # Null THEN pathOfStage(project[1])
    ELSE "upload"

\* C26: the project detail page redirects to the stage path chosen by the
\* fallback chain: the status's currentStage when the status fetch
\* succeeds, else the project's workflowStage when the project fetch
\* succeeds, else upload; unmapped stages give upload, complete gives social.
C26_RedirectFollowsFallbackChain ==
    projectPage.at = "done" =>
        /\ projectPage.redirected
              = Some(projectUrl(chainPath(projectPage.status, projectPage.project)))
        /\ chainPath(projectPage.status, projectPage.project)
              \in {"upload", "outline", "draft", "refine", "social"}

(***************************************************************************)
(* Claims about optimistic deletion                                        *)
(***************************************************************************)
succeeded == {mutations[m].project : m \in {i \in DOMAIN mutations : mutations[i].status = "success"}}

AllSettled ==
    /\ mutations # <<>>
    /\ \A m \in DOMAIN mutations : mutations[m].status # "pending"

\* C27: once every delete mutation has settled and before a refetch has
\* completed, the cached list is the original list without exactly the
\* projects whose delete succeeded.
C27_CacheIsOriginalMinusDeleted ==
    (AllSettled /\ ~reconciled) =>
        cache = Some(SelectSeq(OriginalProjects, LAMBDA p : p \notin succeeded))

(***************************************************************************)
(* Claims about the draft page                                             *)
(***************************************************************************)
generating == {i \in DOMAIN draftSections : draftSections[i].status = "generating"}

AllowedMove(from, to) ==
    \/ from = to
    \/ from = "pending" /\ to = "generating"
    \/ from = "generating" /\ to = "completed"
    \/ from = "generating" /\ to = "pending"

SectionMoves ==
    [][ Len(draftSections) # 0 =>
          /\ DOMAIN draftSections' = DOMAIN draftSections
          /\ \A i \in DOMAIN draftSections :
                AllowedMove(draftSections[i].status, draftSections'[i].status) ]_vars

\* C28: sections move only pending -> generating -> completed or
\* generating -> pending; at most one section is generating;
\* generatingSectionIndex is non-null exactly while some section is
\* generating and then names it; a completed section stays completed.
C28_SectionStateMachine ==
    /\ SectionMoves
    /\ [](Cardinality(generating) <= 1)
    /\ []((generatingSectionIndex # Null) <=> (generating # {}))
    /\ [](\A i \in generating : generatingSectionIndex = Some(draftSections[i].index))

\* C28 as the code has it: generatingSectionIndex names the generating
\* section while there is one, and stays non-null, naming the section just
\* completed, until refetchStatus has resolved.
C28_SectionStateMachineUntilRefetch ==
    /\ SectionMoves
    /\ [](Cardinality(generating) <= 1)
    /\ [](\A i \in generating : generatingSectionIndex = Some(draftSections[i].index))
    /\ [](generatingSectionIndex # Null =>
             \E i \in DOMAIN draftSections :
                /\ generatingSectionIndex = Some(draftSections[i].index)
                /\ \/ draftSections[i].status = "generating"
                   \/ /\ draftSections[i].status = "completed"
                      /\ [sectionIndex |-> draftSections[i].index, at |-> "refetch"] \in handlers)

C28_Witness ==
    /\ generatingSectionIndex # Null
    /\ generating # {}
    /\ \E i \in DOMAIN draftSections :
          draftSections[i].status = "completed" /\ draftSections[i].content # Null

(***************************************************************************)
(* Claims about the disabled editor and the registry's records             *)
(***************************************************************************)
\* C29: while the editor's disabled flag is true no user event changes the
\* outline delivered to the holder, the commit of an edit begun before the
\* editor was disabled included.
C29_DisabledEditorChangesNothing ==
    [][ disabled => (outline' = outline /\ updates' = updates) ]_vars

WellFormed(op) ==
    /\ op.isLoading <=> (op.loadingMessage # Null)
    /\ op.isLoading => op.error = Null
    /\ op.retryCount >= 0

\* C30: every record of the registry is well formed: isLoading exactly when
\* loadingMessage is non-null, no error while loading, retryCount >= 0; and
\* isAnyLoading() is true exactly when some record is loading.
C30_RecordsWellFormed ==
    /\ \A k \in DOMAIN operations : WellFormed(operations[k])
    /\ isAnyLoading(operations) <=> ({k \in DOMAIN operations : operations[k].isLoading} # {})

C30_Witness ==
    /\ isAnyLoading(operations)
    /\ \E k \in DOMAIN operations :
          operations[k].isLoading /\ operations[k].retryCount >= 1
    /\ \E k \in DOMAIN operations :
          ~operations[k].isLoading /\ operations[k].error # Null

====
